---- MODULE Spec2Model ----
(***************************************************************************)
(* Material scattering (src/src/material.rs) and the pixel colouring       *)
(* function (src/src/main.rs) of the ray tracer, as a state machine.       *)
(*                                                                         *)
(* f32 values are modelled by a small fixed-point format: a                 *)
(* finite value is an integer n standing for n / SCALE, every arithmetic   *)
(* result is rounded to the nearest representable value (ties to even), a  *)
(* finite result beyond F32_MAX becomes an infinity, and NaN and the two   *)
(* infinities propagate as in IEEE-754.  Signed zeros are not told apart.  *)
(***************************************************************************)
EXTENDS Integers, Sequences, FiniteSets

\* Representable steps per unit: the precision of the modelled f32.
SCALE == 4
\* Iterations of the rejection loop that the draw counter tells apart.
MaxIter == 2
\* f32::MAX, the largest finite value (in steps of 1 / SCALE).
F32_MAX == 1000000

PInf == F32_MAX + 1
NInf == -(F32_MAX + 1)
NaN == F32_MAX + 2

IsNaN(a) == a = NaN
IsInf(a) == a = PInf \/ a = NInf
IsFinite(a) == ~IsNaN(a) /\ ~IsInf(a)

Abs(n) == IF n < 0 THEN -n ELSE n
Sign(n) == IF n < 0 THEN -1 ELSE IF n > 0 THEN 1 ELSE 0

\* A finite result beyond the largest finite value overflows to an infinity.
Clamp(n) == IF n > F32_MAX THEN PInf ELSE IF n < -F32_MAX THEN NInf ELSE n

\* n / d for d > 0, rounded to the nearest integer, ties to even.
RoundDiv(n, d) ==
  LET q == Abs(n) \div d
      r == Abs(n) % d
      up == (2 * r > d) \/ (2 * r = d /\ q % 2 = 1)
  IN Sign(n) * (IF up THEN q + 1 ELSE q)

Zero == 0
One == SCALE
Two == 2 * SCALE
\* the f32 nearest to 0.5 and to 0.7
Half == RoundDiv(SCALE, 2)
SevenTenths == RoundDiv(7 * SCALE, 10)

\* f32 comparisons: every comparison with NaN is false.
Lt(a, b) == ~IsNaN(a) /\ ~IsNaN(b) /\ a < b
Gt(a, b) == Lt(b, a)
Ge(a, b) == ~IsNaN(a) /\ ~IsNaN(b) /\ a >= b
Le(a, b) == Ge(b, a)

FNeg_f[a \in Int] == IF IsNaN(a) THEN NaN ELSE -a
FNeg(a) == FNeg_f[a]

FAdd_f[a \in Int, b \in Int] ==
  IF IsNaN(a) \/ IsNaN(b) THEN NaN
  ELSE IF IsInf(a) /\ IsInf(b) THEN (IF a = b THEN a ELSE NaN)
  ELSE IF IsInf(a) THEN a
  ELSE IF IsInf(b) THEN b
  ELSE Clamp(a + b)

FAdd(a, b) == FAdd_f[a, b]

FSub(a, b) == FAdd_f[a, FNeg(b)]

FMul_f[a \in Int, b \in Int] ==
  IF IsNaN(a) \/ IsNaN(b) THEN NaN
  ELSE IF IsInf(a) \/ IsInf(b)
    THEN (IF a = 0 \/ b = 0 THEN NaN
          ELSE IF Sign(a) * Sign(b) > 0 THEN PInf ELSE NInf)
  ELSE IF b # 0 /\ Abs(a) > ((F32_MAX + 1) * SCALE) \div Abs(b)
    THEN (IF Sign(a) * Sign(b) > 0 THEN PInf ELSE NInf)
  ELSE Clamp(RoundDiv(a * b, SCALE))

FMul(a, b) == FMul_f[a, b]

FDiv_f[a \in Int, b \in Int] ==
  IF IsNaN(a) \/ IsNaN(b) THEN NaN
  ELSE IF IsInf(a) THEN (IF IsInf(b) THEN NaN
                         ELSE IF Sign(a) * (IF b < 0 THEN -1 ELSE 1) > 0 THEN PInf ELSE NInf)
  ELSE IF IsInf(b) THEN 0
  ELSE IF b = 0 THEN (IF a = 0 THEN NaN ELSE IF a > 0 THEN PInf ELSE NInf)
  ELSE Clamp(Sign(b) * RoundDiv(a * SCALE, Abs(b)))

FDiv(a, b) == FDiv_f[a, b]

RECURSIVE ISqrt(_, _, _)
\* The largest r in lo..hi with r * r <= x (bisection; lo * lo <= x < (hi + 1)^2).
ISqrt(x, lo, hi) ==
  IF lo >= hi THEN lo
  ELSE LET mid == (lo + hi + 1) \div 2
       IN IF mid * mid <= x THEN ISqrt(x, mid, hi) ELSE ISqrt(x, lo, mid - 1)

FSqrt_f[a \in Int] ==
  IF IsNaN(a) \/ Lt(a, 0) THEN NaN
  ELSE IF a = PInf THEN PInf
  ELSE LET x == a * SCALE
           r == ISqrt(x, 0, 3000)
       IN IF x - r * r > r THEN r + 1 ELSE r

FSqrt(a) == FSqrt_f[a]

(***************************************************************************)
(* Vec3 (crate::vec3): three f32 components.                               *)
(***************************************************************************)
Vec3_new(x, y, z) == <<x, y, z>>
Vec3s == Int \X Int \X Int
VAdd_f[a \in Vec3s, b \in Vec3s] == <<FAdd(a[1], b[1]), FAdd(a[2], b[2]), FAdd(a[3], b[3])>>
VAdd(a, b) == VAdd_f[a, b]
VSub_f[a \in Vec3s, b \in Vec3s] == <<FSub(a[1], b[1]), FSub(a[2], b[2]), FSub(a[3], b[3])>>
VSub(a, b) == VSub_f[a, b]
VNeg_f[a \in Vec3s] == <<FNeg(a[1]), FNeg(a[2]), FNeg(a[3])>>
VNeg(a) == VNeg_f[a]
\* f32 * Vec3 and Vec3 * f32
VScale_f[k \in Int, a \in Vec3s] == <<FMul(k, a[1]), FMul(k, a[2]), FMul(k, a[3])>>
VScale(k, a) == VScale_f[k, a]
VDiv_f[a \in Vec3s, k \in Int] == <<FDiv(a[1], k), FDiv(a[2], k), FDiv(a[3], k)>>
VDiv(a, k) == VDiv_f[a, k]
dot_f[a \in Vec3s, b \in Vec3s] ==
  FAdd(FAdd(FMul(a[1], b[1]), FMul(a[2], b[2])), FMul(a[3], b[3]))
dot(a, b) == dot_f[a, b]
squared_length(a) == dot_f[a, a]
length(a) == FSqrt(squared_length(a))
unit_vector_f[a \in Vec3s] == VDiv(a, length(a))
unit_vector(a) == unit_vector_f[a]

(***************************************************************************)
(* Ray (src/src/ray.rs)                                                    *)
(***************************************************************************)
Ray_new(origin, direction) == [origin |-> origin, direction |-> direction]

(***************************************************************************)
(* material.rs                                                             *)
(***************************************************************************)
\* fastrand::f32(): the representable values of [0, 1)
Draws == 0 .. (SCALE - 1)

\* line 14: 2.0 * Vec3::new(u, v, w) - Vec3::new(1.0, 1.0, 1.0)
potential_point(u, v, w) == VSub(VScale(Two, Vec3_new(u, v, w)), Vec3_new(One, One, One))

\* the test with <= for <
in_unit_sphere_le(p) == Le(squared_length(p), One)
\* the test against 0.0 for 1.0
in_unit_sphere_zero(p) == Lt(squared_length(p), Zero)

\* line 15: the test that ends the rejection loop
in_unit_sphere(p) == Lt(squared_length(p), One)

ScatterResult_new(attenuation, scattered) ==
  [some |-> TRUE, attenuation |-> attenuation, scattered |-> scattered]
None == [some |-> FALSE]

Lambertian_new(albedo) == [kind |-> "Lambertian", albedo |-> albedo]

\* the hit point not subtracted from the target, and the incoming direction added
Lambertian_scatter_target(self, ray_in, hit_record, sample) ==
  LET target == VAdd(VAdd(hit_record.point, hit_record.normal), sample)
  IN ScatterResult_new(self.albedo, Ray_new(hit_record.point, VAdd(target, ray_in.direction)))

\* Lambertian::scatter once random_in_unit_sphere has returned `sample`
Lambertian_scatter(self, ray_in, hit_record, sample) ==
  LET target == VAdd(VAdd(hit_record.point, hit_record.normal), sample)
      scattered == Ray_new(hit_record.point, VSub(target, hit_record.point))
  IN ScatterResult_new(self.albedo, scattered)

reflect(v, n) == VSub(v, VScale(FMul(Two, dot(v, n)), n))

\* fuzz clamped to [0, 1], as the conventional algorithm does
Metal_new_clamped(albedo, fuzz) ==
  [kind |-> "Metal", albedo |-> albedo,
   fuzz |-> IF Lt(fuzz, Zero) THEN Zero ELSE IF Gt(fuzz, One) THEN One ELSE fuzz]

Metal_new(albedo, fuzz) ==
  [kind |-> "Metal", albedo |-> albedo, fuzz |-> IF Lt(fuzz, Zero) THEN Zero ELSE fuzz]

\* the gate with >= for >
Metal_scatter_ge(self, ray_in, hit_record, sample) ==
  LET reflected == reflect(unit_vector(ray_in.direction), hit_record.normal)
      scattered == Ray_new(hit_record.point, VAdd(reflected, VScale(self.fuzz, sample)))
  IN IF Ge(dot(scattered.direction, hit_record.normal), Zero)
       THEN ScatterResult_new(self.albedo, scattered)
       ELSE None

\* the sample added without its fuzz factor
Metal_scatter_unscaled(self, ray_in, hit_record, sample) ==
  LET reflected == reflect(unit_vector(ray_in.direction), hit_record.normal)
      scattered == Ray_new(hit_record.point, VAdd(reflected, sample))
  IN IF Gt(dot(scattered.direction, hit_record.normal), Zero)
       THEN ScatterResult_new(self.albedo, scattered)
       ELSE None

\* Metal::scatter once random_in_unit_sphere has returned `sample`
Metal_scatter(self, ray_in, hit_record, sample) ==
  LET reflected == reflect(unit_vector(ray_in.direction), hit_record.normal)
      scattered == Ray_new(hit_record.point, VAdd(reflected, VScale(self.fuzz, sample)))
  IN IF Gt(dot(scattered.direction, hit_record.normal), Zero)
       THEN ScatterResult_new(self.albedo, scattered)
       ELSE None

NoVec == <<NaN, NaN, NaN>>

\* lines 110-112: the discriminant of refract
refract_discriminant(v, n, ni_over_nt) ==
  LET dt == dot(unit_vector(v), n)
  IN FSub(One, FMul(FMul(ni_over_nt, ni_over_nt), FSub(One, FMul(dt, dt))))

refract(v, n, ni_over_nt) ==
  LET uv == unit_vector(v)
      dt == dot(uv, n)
      discriminant == refract_discriminant(v, n, ni_over_nt)
  IN IF Gt(discriminant, Zero)
       THEN [some |-> TRUE,
             v |-> VSub(VScale(ni_over_nt, VSub(uv, VScale(dt, n))),
                        VScale(FSqrt(discriminant), n))]
       ELSE [some |-> FALSE, v |-> NoVec]

\* f32::powf(5.0)
powf5(x) == FMul(FMul(FMul(FMul(x, x), x), x), x)

schlick(cosine, ref_idx) ==
  LET r0a == FDiv(FSub(One, ref_idx), FAdd(One, ref_idx))
      r0 == FMul(r0a, r0a)
  IN FAdd(r0, FMul(FSub(One, r0), powf5(FSub(One, cosine))))

Dielectric_new(ref_idx) == [kind |-> "Dielectric", ref_idx |-> ref_idx]

\* lines 141-147: (outward_normal, ni_over_nt, cosine)
Dielectric_side(self, ray_in, hit_record) ==
  LET d == ray_in.direction
      n == hit_record.normal
  IN IF Gt(dot(d, n), Zero)
       THEN [outward_normal |-> VNeg(n), ni_over_nt |-> self.ref_idx,
             cosine |-> FDiv(FMul(self.ref_idx, dot(d, n)), length(d))]
       ELSE [outward_normal |-> n, ni_over_nt |-> FDiv(One, self.ref_idx),
             cosine |-> FDiv(FNeg(dot(d, n)), length(d))]

\* line 148
Dielectric_refraction(self, ray_in, hit_record) ==
  LET s == Dielectric_side(self, ray_in, hit_record)
  IN refract(ray_in.direction, s.outward_normal, s.ni_over_nt)

\* the Schlick reflectance also when refract returned None
reflect_probability_schlick(self, ray_in, hit_record) ==
  schlick(Dielectric_side(self, ray_in, hit_record).cosine, self.ref_idx)

\* lines 149-153
reflect_probability(self, ray_in, hit_record) ==
  IF Dielectric_refraction(self, ray_in, hit_record).some
    THEN schlick(Dielectric_side(self, ray_in, hit_record).cosine, self.ref_idx)
    ELSE One

\* the draw compared the other way round
Dielectric_branch_swapped(self, ray_in, hit_record, u) ==
  IF Gt(u, reflect_probability(self, ray_in, hit_record)) THEN "reflect"
  ELSE IF Dielectric_refraction(self, ray_in, hit_record).some THEN "refract"
  ELSE "unreachable"

\* lines 154-161: which arm builds the scattered ray, for the draw `u`
Dielectric_branch(self, ray_in, hit_record, u) ==
  IF Lt(u, reflect_probability(self, ray_in, hit_record)) THEN "reflect"
  ELSE IF Dielectric_refraction(self, ray_in, hit_record).some THEN "refract"
  ELSE "unreachable"

\* total internal reflection reported as absorption
Dielectric_scatter_absorbs(self, ray_in, hit_record, u) ==
  IF Dielectric_refraction(self, ray_in, hit_record).some
    THEN ScatterResult_new(Vec3_new(One, One, One),
           Ray_new(hit_record.point, Dielectric_refraction(self, ray_in, hit_record).v))
    ELSE None

\* Dielectric::scatter for the draw `u`; the unreachable!() arm panics
Dielectric_scatter(self, ray_in, hit_record, u) ==
  LET reflected == reflect(ray_in.direction, hit_record.normal)
      attenuation == Vec3_new(One, One, One)
      branch == Dielectric_branch(self, ray_in, hit_record, u)
  IN IF branch = "reflect"
       THEN ScatterResult_new(attenuation, Ray_new(hit_record.point, reflected))
     ELSE IF branch = "refract"
       THEN ScatterResult_new(attenuation,
              Ray_new(hit_record.point, Dielectric_refraction(self, ray_in, hit_record).v))
     ELSE [some |-> FALSE, panic |-> "Refraction not possible"]

(***************************************************************************)
(* Sphere and HittableList (crate::sphere, crate::hit)                     *)
(***************************************************************************)
Sphere_new(center, radius) == [center |-> center, radius |-> radius]
NoHit == [some |-> FALSE]

point_at_parameter(ray, t) == VAdd(ray.origin, VScale(t, ray.direction))

HitRecord_new(t, point, normal, cow) ==
  [some |-> TRUE, t |-> t, point |-> point, normal |-> normal, cow |-> cow]

\* Sphere::is_hit, from the hit's parameter t on: the record of the hit
Sphere_record(sphere, t, point, cow) ==
  HitRecord_new(t, point, VDiv(VSub(point, sphere.center), sphere.radius), cow)

\* Sphere::is_hit, from the two roots on: the smaller root first, each root strictly
\* inside (t_min, t_max)
Sphere_roots(sphere, ray, t_min, t_max, cow, root1, root2) ==
  IF Lt(t_min, root1) /\ Lt(root1, t_max)
    THEN Sphere_record(sphere, root1, point_at_parameter(ray, root1), cow)
  ELSE IF Lt(t_min, root2) /\ Lt(root2, t_max)
    THEN Sphere_record(sphere, root2, point_at_parameter(ray, root2), cow)
  ELSE NoHit

\* Sphere::is_hit, from the discriminant on
Sphere_discriminant(sphere, ray, t_min, t_max, cow, a, b, sqrt_discriminant, negative) ==
  IF negative THEN NoHit
  ELSE Sphere_roots(sphere, ray, t_min, t_max, cow,
                    FDiv(FSub(FNeg(b), sqrt_discriminant), FMul(Two, a)),
                    FDiv(FAdd(FNeg(b), sqrt_discriminant), FMul(Two, a)))

\* Sphere::is_hit, from the coefficients of the quadratic on
Sphere_quadratic(sphere, ray, t_min, t_max, cow, a, b, c) ==
  Sphere_discriminant(sphere, ray, t_min, t_max, cow, a, b,
                      FSqrt(FSub(FMul(b, b), FMul(FMul(2 * Two, a), c))),
                      Lt(FSub(FMul(b, b), FMul(FMul(2 * Two, a), c)), Zero))

\* Sphere::is_hit, from origin - center on
Sphere_oc(sphere, ray, t_min, t_max, cow, oc) ==
  Sphere_quadratic(sphere, ray, t_min, t_max, cow,
                   dot(ray.direction, ray.direction),
                   FMul(Two, dot(oc, ray.direction)),
                   FSub(dot(oc, oc), FMul(sphere.radius, sphere.radius)))

Sphere_is_hit(sphere, ray, t_min, t_max, cow) ==
  Sphere_oc(sphere, ray, t_min, t_max, cow, VSub(ray.origin, sphere.center))

RECURSIVE HittableList_scan(_, _, _, _, _, _, _)
RECURSIVE HittableList_member(_, _, _, _, _, _, _, _)
\* HittableList::is_hit, the members from index i on, with the closest hit so far
\* and its t as the t_max of the next query
HittableList_scan(list, i, ray, t_min, closest_so_far, best, cow) ==
  IF i > Len(list) THEN best
  ELSE HittableList_member(list, i, ray, t_min, closest_so_far, best, cow,
                           Sphere_is_hit(list[i], ray, t_min, closest_so_far, cow))

\* what member i's answer h does to the closest hit so far
HittableList_member(list, i, ray, t_min, closest_so_far, best, cow, h) ==
  IF h.some THEN HittableList_scan(list, i + 1, ray, t_min, h.t, h, cow)
  ELSE HittableList_scan(list, i + 1, ray, t_min, closest_so_far, best, cow)

HittableList_is_hit(world, ray, t_min, t_max, cow) ==
  HittableList_scan(world, 1, ray, t_min, t_max, NoHit, cow)

(***************************************************************************)
(* main.rs                                                                 *)
(***************************************************************************)
\* the calls color makes on its collaborators, in order (line 16)
color_calls(ray, world) ==
  <<[fn |-> "HittableList::is_hit", ray |-> ray, t_min |-> Zero, t_max |-> F32_MAX]>>

\* lines 18-20: the closure of the None arm, from lerp_factor on
color_sky(lerp_factor) ==
  VAdd(VScale(FSub(One, lerp_factor), Vec3_new(One, One, One)),
       VScale(lerp_factor, Vec3_new(Half, SevenTenths, One)))

\* the Cow::Borrowed arm without the + 1.0
color_normal_borrowed(cow, normal) ==
  IF cow = "Borrowed"
    THEN VScale(Half, normal)
    ELSE VScale(Half, Vec3_new(FAdd(normal[1], One), FAdd(normal[2], One), FAdd(normal[3], One)))

\* lines 23-27: the closure of the Some arm, one match arm for each Cow variant
color_normal(cow, normal) ==
  IF cow = "Borrowed"
    THEN VScale(Half, Vec3_new(FAdd(normal[1], One), FAdd(normal[2], One), FAdd(normal[3], One)))
    ELSE VScale(Half, Vec3_new(FAdd(normal[1], One), FAdd(normal[2], One), FAdd(normal[3], One)))

\* color, from the answer of the scene query on
color_map_or_else(ray, hit) ==
  IF ~hit.some
    THEN color_sky(FMul(Half, FAdd(unit_vector(ray.direction)[2], One)))
    ELSE color_normal(hit.cow, hit.normal)

\* color, for the hit record's normal being Cow::Borrowed or Cow::Owned
color(ray, world, cow) ==
  color_map_or_else(ray, HittableList_is_hit(world, ray, Zero, F32_MAX, cow))

(***************************************************************************)
(* The inputs the operations are applied to                                *)
(***************************************************************************)
ZeroVec == <<Zero, Zero, Zero>>
Three == 3 * SCALE

Albedos == {<<One, Half, Zero>>, <<Half, Half, Half>>}
Fuzzes == {FNeg(One), Zero, Half, Two, NaN}
RefIdxs == {FAdd(One, Half), One, Two, Three, Half, Zero, FNeg(One), NaN}
Points == {<<Zero, Zero, FNeg(Half)>>, <<One, FNeg(One), Two>>}

\* normals whose computed squared length is exactly 1.0, and some that are not unit
\* (0.75, 0.75, 0) at SCALE 4: dot rounds its squared length to exactly 1.0
DiagNormal == <<3, SCALE - 1, Zero>>
UnitNormals ==
  {n \in {<<x, y, z>> : x \in {Zero, 3, One}, y \in {Zero, SCALE - 1, One},
                         z \in {FNeg(One), Zero, One}} :
     squared_length(n) = One}
Normals == UnitNormals \cup {<<Zero, Zero, Two>>, <<Zero, NaN, Zero>>, ZeroVec}

Directions ==
  {ZeroVec, <<Zero, Zero, FNeg(One)>>, <<Zero, Zero, FNeg(Two)>>, <<Zero, Zero, One>>,
   <<One, Zero, FNeg(One)>>, <<One, Zero, Zero>>, VNeg(DiagNormal), <<Two, One, One>>,
   <<Zero, PInf, Zero>>}

Rays == {Ray_new(ZeroVec, d) : d \in Directions}
HitRecords == {HitRecord_new(One, p, n, "Owned") : p \in Points, n \in Normals}

\* the rays and hit records Lambertian::scatter and Metal::scatter are applied to
SampledDirections ==
  {ZeroVec, <<Zero, Zero, FNeg(Two)>>, <<One, Zero, FNeg(One)>>, <<One, Zero, Zero>>,
   VNeg(DiagNormal)}
SampledNormals ==
  {<<Zero, Zero, One>>, DiagNormal, <<Zero, Zero, Two>>, <<Zero, NaN, Zero>>}
SampledRays == {Ray_new(ZeroVec, d) : d \in SampledDirections}
SampledHitRecords == {HitRecord_new(One, p, n, "Owned") : p \in Points, n \in SampledNormals}

\* the scene of main (lines 47-48), its members in either order, and smaller scenes
Sphere1 == Sphere_new(<<Zero, Zero, FNeg(One)>>, Half)
Sphere2 == Sphere_new(<<Zero, FNeg(FAdd(100 * One, Half)), FNeg(One)>>, 100 * One)
Worlds == {<<>>, <<Sphere1>>, <<Sphere1, Sphere2>>, <<Sphere2, Sphere1>>}
CameraRays ==
  {Ray_new(o, d) : o \in {ZeroVec, <<Zero, Zero, FNeg(One)>>},
                   d \in {ZeroVec, <<Zero, Zero, FNeg(One)>>, <<Zero, One, Zero>>,
                          <<Zero, FNeg(One), FNeg(One)>>, <<FNeg(Two), FNeg(One), FNeg(One)>>,
                          <<Half, Zero, FNeg(One)>>, <<Zero, Zero, One>>}}
Cows == {"Borrowed", "Owned"}

(***************************************************************************)
(* State                                                                   *)
(***************************************************************************)
VARIABLES
  pc,      \* "idle", "loop" (inside random_in_unit_sphere), "sampled", "done", "panic"
  op,      \* the operation called last
  self,    \* the material constructed last
  args,    \* the arguments of the operation called last
  rng,     \* fastrand: calls made by the running operation, and the values last used
  sample,  \* point_in_unit_sphere, the candidate that left the loop
  ret,     \* the value returned last
  trace    \* the arm Dielectric::scatter took, and the calls color made

vars == <<pc, op, self, args, rng, sample, ret, trace>>

NoArgs ==
  [albedo |-> ZeroVec, fuzz |-> Zero, ref_idx |-> Zero, ray |-> Ray_new(ZeroVec, ZeroVec),
   hit_record |-> HitRecord_new(Zero, ZeroVec, ZeroVec, "Owned"), world |-> <<>>,
   cow |-> "Owned", u |-> Zero]
NoRng == [calls |-> 0, last |-> <<>>]
NoTrace == [branch |-> "none", calls |-> <<>>]
NoRet == [some |-> FALSE, unit |-> TRUE]

\* the draw counter tells MaxIter iterations apart
MaxCalls == 3 * MaxIter
Count(n) == IF n > MaxCalls THEN MaxCalls ELSE n

Ready == pc = "idle"

Init ==
  /\ pc = "idle" /\ op = "none" /\ self = [kind |-> "none"]
  /\ args = NoArgs /\ rng = NoRng /\ sample = NoVec /\ ret = NoRet /\ trace = NoTrace

LambertianNew ==
  /\ Ready
  /\ \E albedo \in Albedos :
       /\ self' = Lambertian_new(albedo)
       /\ args' = [NoArgs EXCEPT !.albedo = albedo]
  /\ op' = "Lambertian::new" /\ pc' = "idle"
  /\ rng' = NoRng /\ sample' = NoVec /\ ret' = NoRet /\ trace' = NoTrace

MetalNew ==
  /\ Ready
  /\ \E albedo \in Albedos, fuzz \in Fuzzes :
       /\ self' = Metal_new(albedo, fuzz)
       /\ args' = [NoArgs EXCEPT !.albedo = albedo, !.fuzz = fuzz]
  /\ op' = "Metal::new" /\ pc' = "idle"
  /\ rng' = NoRng /\ sample' = NoVec /\ ret' = NoRet /\ trace' = NoTrace

DielectricNew ==
  /\ Ready
  /\ \E ref_idx \in RefIdxs :
       /\ self' = Dielectric_new(ref_idx)
       /\ args' = [NoArgs EXCEPT !.ref_idx = ref_idx]
  /\ op' = "Dielectric::new" /\ pc' = "idle"
  /\ rng' = NoRng /\ sample' = NoVec /\ ret' = NoRet /\ trace' = NoTrace

\* Lambertian::scatter up to its call of random_in_unit_sphere (line 67), for an
\* incoming ray of `rays` and a hit record of `hit_records`
LambertianScatterCallOn(rays, hit_records) ==
  /\ Ready /\ self.kind = "Lambertian"
  /\ \E r \in rays, h \in hit_records :
       args' = [NoArgs EXCEPT !.ray = r, !.hit_record = h]
  /\ op' = "Lambertian::scatter" /\ pc' = "loop"
  /\ rng' = NoRng /\ sample' = NoVec /\ ret' = NoRet /\ trace' = NoTrace
  /\ UNCHANGED self

\* Metal::scatter up to its call of random_in_unit_sphere (line 100)
MetalScatterCallOn(rays, hit_records) ==
  /\ Ready /\ self.kind = "Metal"
  /\ \E r \in rays, h \in hit_records :
       args' = [NoArgs EXCEPT !.ray = r, !.hit_record = h]
  /\ op' = "Metal::scatter" /\ pc' = "loop"
  /\ rng' = NoRng /\ sample' = NoVec /\ ret' = NoRet /\ trace' = NoTrace
  /\ UNCHANGED self

LambertianScatterCall == LambertianScatterCallOn(SampledRays, SampledHitRecords)
MetalScatterCall == MetalScatterCallOn(SampledRays, SampledHitRecords)

\* one iteration of the loop of random_in_unit_sphere whose candidate fails the test
RandomReject ==
  /\ pc = "loop"
  /\ \E u \in Draws, v \in Draws, w \in Draws :
       ~in_unit_sphere(potential_point(u, v, w))
  /\ rng' = [rng EXCEPT !.calls = Count(rng.calls + 3)]
  /\ pc' = "loop"
  /\ UNCHANGED <<op, self, args, sample, ret, trace>>

\* the iteration whose candidate passes: break, and return it
RandomAccept ==
  /\ pc = "loop"
  /\ \E u \in Draws, v \in Draws, w \in Draws :
       /\ in_unit_sphere(potential_point(u, v, w))
       /\ sample' = potential_point(u, v, w)
       /\ rng' = [calls |-> Count(rng.calls + 3), last |-> <<u, v, w>>]
  /\ pc' = "sampled"
  /\ UNCHANGED <<op, self, args, ret, trace>>

LambertianScatterReturn ==
  /\ pc = "sampled" /\ op = "Lambertian::scatter"
  /\ ret' = Lambertian_scatter(self, args.ray, args.hit_record, sample)
  /\ pc' = "done"
  /\ UNCHANGED <<op, self, args, rng, sample, trace>>

MetalScatterReturn ==
  /\ pc = "sampled" /\ op = "Metal::scatter"
  /\ ret' = Metal_scatter(self, args.ray, args.hit_record, sample)
  /\ pc' = "done"
  /\ UNCHANGED <<op, self, args, rng, sample, trace>>

DielectricScatter ==
  /\ Ready /\ self.kind = "Dielectric"
  /\ \E r \in Rays, h \in HitRecords, u \in Draws :
       /\ args' = [NoArgs EXCEPT !.ray = r, !.hit_record = h, !.u = u]
       /\ ret' = Dielectric_scatter(self, r, h, u)
       /\ trace' = [NoTrace EXCEPT !.branch = Dielectric_branch(self, r, h, u)]
       /\ pc' = IF Dielectric_branch(self, r, h, u) = "unreachable"
                  THEN "panic" ELSE "done"
  /\ op' = "Dielectric::scatter"
  /\ rng' = [calls |-> 1, last |-> <<args'.u>>] /\ sample' = NoVec
  /\ UNCHANGED self

Color ==
  /\ Ready
  /\ \E ray \in CameraRays, world \in Worlds, cow \in Cows :
       /\ args' = [NoArgs EXCEPT !.ray = ray, !.world = world, !.cow = cow]
       /\ ret' = [some |-> TRUE, color |-> color(ray, world, cow)]
       /\ trace' = [NoTrace EXCEPT !.calls = color_calls(ray, world)]
  /\ op' = "color" /\ pc' = "done"
  /\ rng' = NoRng /\ sample' = NoVec
  /\ UNCHANGED self

\* the caller takes the returned value; the material stays
Consume ==
  /\ pc = "done"
  /\ pc' = "idle" /\ op' = "none"
  /\ args' = NoArgs /\ rng' = NoRng /\ sample' = NoVec /\ ret' = NoRet /\ trace' = NoTrace
  /\ UNCHANGED self

Next ==
  \/ LambertianNew \/ MetalNew \/ DielectricNew
  \/ LambertianScatterCall \/ MetalScatterCall
  \/ RandomReject \/ RandomAccept
  \/ LambertianScatterReturn \/ MetalScatterReturn
  \/ DielectricScatter \/ Color \/ Consume

Spec == Init /\ [][Next]_vars

\* The calls that sample the unit sphere, on materials already constructed and a
\* few of the rays and hit records: the rejection loop reads none of them.
FairMaterials == {Lambertian_new(<<One, Half, Zero>>), Metal_new(<<Half, Half, Half>>, Half)}
FairRays == {Ray_new(ZeroVec, <<Zero, Zero, FNeg(Two)>>), Ray_new(ZeroVec, <<One, Zero, Zero>>)}
FairHitRecords == {HitRecord_new(One, <<Zero, Zero, FNeg(Half)>>, <<Zero, Zero, One>>, "Owned")}

FairInit ==
  /\ pc = "idle" /\ op = "none" /\ self \in FairMaterials
  /\ args = NoArgs /\ rng = NoRng /\ sample = NoVec /\ ret = NoRet /\ trace = NoTrace

FairLambertianScatterCall == LambertianScatterCallOn(FairRays, FairHitRecords)
FairMetalScatterCall == MetalScatterCallOn(FairRays, FairHitRecords)

FairNext ==
  \/ FairLambertianScatterCall \/ FairMetalScatterCall
  \/ RandomReject \/ RandomAccept
  \/ LambertianScatterReturn \/ MetalScatterReturn
  \/ Consume

\* a random source that does not forever withhold a candidate inside the sphere,
\* and a caller that resumes once random_in_unit_sphere has returned
FairSpec ==
  /\ FairInit /\ [][FairNext]_vars
  /\ WF_vars(RandomAccept)
  /\ WF_vars(LambertianScatterReturn) /\ WF_vars(MetalScatterReturn)

(***************************************************************************)
(* Properties                                                              *)
(***************************************************************************)
Returned(o) == pc = "done" /\ op = o
ray_in == args.ray
hit_record == args.hit_record
LargestDraw == SCALE - 1

\* C1: Dielectric::scatter never executes its unreachable!() arm: whenever refract
\* returned None the reflect probability is 1.0 and the reflection arm is taken, and
\* the refraction arm is entered only when refract returned Some.
C1_UnreachableNeverRuns ==
  /\ pc # "panic"
  /\ trace.branch # "unreachable"
  /\ op = "Dielectric::scatter" =>
       /\ ~Dielectric_refraction(self, ray_in, hit_record).some =>
            /\ reflect_probability(self, ray_in, hit_record) = One
            /\ trace.branch = "reflect"
       /\ trace.branch = "refract" => Dielectric_refraction(self, ray_in, hit_record).some

\* refract returned None and the largest draw of [0, 1) still took the reflection arm
C1_Witness ==
  /\ Returned("Dielectric::scatter")
  /\ ~Dielectric_refraction(self, ray_in, hit_record).some
  /\ args.u = LargestDraw
  /\ trace.branch = "reflect"

\* C2: Dielectric::scatter never reports absorption: it returns Some, with attenuation
\* exactly (1, 1, 1) and a scattered ray whose origin is the hit record's point,
\* whichever of reflection and refraction is chosen.
C2_DielectricAlwaysScatters ==
  op = "Dielectric::scatter" =>
    /\ pc = "done"
    /\ ret.some
    /\ ret.attenuation = <<One, One, One>>
    /\ ret.scattered.origin = hit_record.point

\* a refracted ray, from a hit point other than the origin
C2_Witness ==
  /\ Returned("Dielectric::scatter")
  /\ trace.branch = "refract"
  /\ hit_record.point # ZeroVec
  /\ ret.some

\* C3: Lambertian::scatter always returns Some: the scattered ray's origin is the hit
\* point, its direction is (hit point + normal + sample) - hit point for the sample
\* random_in_unit_sphere returned, the attenuation is the albedo; the incoming ray is
\* never consulted.
C3_LambertianScatter ==
  Returned("Lambertian::scatter") =>
    /\ ret.some
    /\ ret.scattered.origin = hit_record.point
    /\ ret.scattered.direction =
         VSub(VAdd(VAdd(hit_record.point, hit_record.normal), sample), hit_record.point)
    /\ ret.attenuation = self.albedo

\* a call with a non-zero incoming direction, hit point and sample
C3_Witness ==
  /\ Returned("Lambertian::scatter")
  /\ ray_in.direction # ZeroVec
  /\ hit_record.point # ZeroVec
  /\ sample # ZeroVec
  /\ ret.some

\* the direction Metal::scatter tests: the reflected unit direction plus fuzz times
\* the sample
C4_Scattered ==
  VAdd(VSub(unit_vector(ray_in.direction),
            VScale(FMul(Two, dot(unit_vector(ray_in.direction), hit_record.normal)),
                   hit_record.normal)),
       VScale(self.fuzz, sample))

\* C4: Metal::scatter returns Some exactly when the dot product of the scattered
\* direction with the hit normal is strictly positive, and None otherwise, also when
\* the dot product is exactly 0; when Some, the attenuation is the albedo and the
\* scattered ray's origin is the hit point.
C4_MetalGate ==
  Returned("Metal::scatter") =>
    /\ ret.some <=> Gt(dot(C4_Scattered, hit_record.normal), Zero)
    /\ ret.some =>
         /\ ret.attenuation = self.albedo
         /\ ret.scattered.origin = hit_record.point
         /\ ret.scattered.direction = C4_Scattered

\* a dot product of exactly 0, answered None
C4_Witness ==
  /\ Returned("Metal::scatter")
  /\ dot(C4_Scattered, hit_record.normal) = Zero
  /\ ~ret.some

\* C5: after Metal::new(albedo, f), fuzz() is 0 when f < 0 and f when f >= 0: it is
\* never negative, a value above 1 is kept as given, and albedo is stored unchanged.
C5_MetalNewFuzz ==
  op = "Metal::new" =>
    /\ Lt(args.fuzz, Zero) => self.fuzz = Zero
    /\ Ge(args.fuzz, Zero) => self.fuzz = args.fuzz
    /\ ~Lt(self.fuzz, Zero)
    /\ self.albedo = args.albedo

\* a fuzz above 1 that was kept
C5_Witness ==
  /\ op = "Metal::new"
  /\ Gt(args.fuzz, One)
  /\ self.fuzz = args.fuzz

\* the mirror reflection v - 2 (v . n) n of the unit incoming direction
C6_Mirror ==
  VSub(unit_vector(ray_in.direction),
       VScale(FMul(Two, dot(unit_vector(ray_in.direction), hit_record.normal)),
              hit_record.normal))

\* C6: with fuzz = 0 the result of Metal::scatter is a function of the ray and the
\* hit record alone, whatever the random draws: it is Some exactly when the mirror
\* reflection has a positive dot product with the normal, its direction is then the
\* mirror reflection, and at normal incidence on a unit normal it is the normal.
C6_NoFuzzNoRandomness ==
  (Returned("Metal::scatter") /\ self.fuzz = Zero) =>
    /\ ret = IF Gt(dot(C6_Mirror, hit_record.normal), Zero)
               THEN [some |-> TRUE, attenuation |-> self.albedo,
                     scattered |-> [origin |-> hit_record.point, direction |-> C6_Mirror]]
               ELSE [some |-> FALSE]
    /\ (/\ unit_vector(ray_in.direction) = VNeg(hit_record.normal)
        /\ squared_length(hit_record.normal) = One) =>
         /\ ret.some
         /\ ret.scattered.direction = hit_record.normal

\* normal incidence on a unit normal that is not an axis, after a rejected candidate
\* and with a non-zero sample
C6_Witness ==
  /\ Returned("Metal::scatter") /\ self.fuzz = Zero
  /\ unit_vector(ray_in.direction) = VNeg(hit_record.normal)
  /\ squared_length(hit_record.normal) = One
  /\ hit_record.normal = DiagNormal
  /\ sample # ZeroVec
  /\ rng.calls > 3
  /\ ret.some

\* the discriminant refract computes in Dielectric::scatter
C7_Discriminant ==
  refract_discriminant(ray_in.direction,
                       Dielectric_side(self, ray_in, hit_record).outward_normal,
                       Dielectric_side(self, ray_in, hit_record).ni_over_nt)

\* C7: when the discriminant is <= 0, also at exactly 0, the scattered ray is
\* reflect(direction, normal) from the hit point for every draw; a refracted ray is
\* produced only when the discriminant is > 0 and the draw is not below the Schlick
\* reflectance.
C7_TotalInternalReflection ==
  op = "Dielectric::scatter" =>
    /\ Le(C7_Discriminant, Zero) =>
         /\ trace.branch = "reflect"
         /\ ret.some
         /\ ret.scattered = [origin |-> hit_record.point,
                             direction |-> reflect(ray_in.direction, hit_record.normal)]
    /\ trace.branch = "refract" =>
         /\ Gt(C7_Discriminant, Zero)
         /\ ~Lt(args.u, schlick(Dielectric_side(self, ray_in, hit_record).cosine,
                                self.ref_idx))
         /\ ret.scattered.direction = Dielectric_refraction(self, ray_in, hit_record).v

\* a discriminant of exactly 0 and the largest draw
C7_Witness ==
  /\ Returned("Dielectric::scatter")
  /\ C7_Discriminant = Zero
  /\ args.u = LargestDraw
  /\ trace.branch = "reflect"

\* the answer of the one scene query color makes
C8_Hit == HittableList_is_hit(args.world, args.ray, Zero, F32_MAX, args.cow)
C8_Factor == FMul(Half, FAdd(unit_vector(args.ray.direction)[2], One))

\* C8: color makes exactly one scene query, is_hit(ray, 0.0, f32::MAX), and never
\* calls Material::scatter; on None it returns the sky gradient
\* (1 - f) (1, 1, 1) + f (0.5, 0.7, 1.0) with f = 0.5 (unit direction y + 1), on a hit
\* 0.5 (normal + (1, 1, 1)), the same for a borrowed and an owned normal.
C8_Color ==
  op = "color" =>
    /\ pc = "done"
    /\ trace.calls = <<[fn |-> "HittableList::is_hit", ray |-> args.ray,
                        t_min |-> Zero, t_max |-> F32_MAX]>>
    /\ rng.calls = 0
    /\ ~C8_Hit.some =>
         ret.color = VAdd(VScale(FSub(One, C8_Factor), <<One, One, One>>),
                          VScale(C8_Factor, <<Half, SevenTenths, One>>))
    /\ C8_Hit.some =>
         ret.color = VScale(Half, VAdd(C8_Hit.normal, <<One, One, One>>))

\* a hit whose normal is borrowed, in the scene of main
C8_Witness ==
  /\ Returned("color")
  /\ Len(args.world) = 2
  /\ C8_Hit.some
  /\ args.cow = "Borrowed"
  /\ C8_Hit.cow = "Borrowed"

\* C9: random_in_unit_sphere returns only a candidate that passed the test: the
\* returned vector is 2 (u, v, w) - (1, 1, 1) for the three draws of its last
\* iteration and has squared length < 1, never >= 1; every iteration, rejected or
\* not, consumes exactly three draws.
C9_RejectionSampling ==
  [][pc = "loop" =>
       /\ rng.calls < MaxCalls => rng'.calls = rng.calls + 3
       /\ pc' = "loop" => sample' = sample
       /\ pc' # "loop" =>
            /\ pc' = "sampled"
            /\ Len(rng'.last) = 3
            /\ sample' = VSub(VScale(Two, <<rng'.last[1], rng'.last[2], rng'.last[3]>>),
                              <<One, One, One>>)
            /\ Lt(squared_length(sample'), One)
            /\ ~Ge(squared_length(sample'), One)]_vars

\* a candidate returned after a rejected iteration, where some candidate has a
\* squared length of exactly 1
C9_Witness ==
  /\ pc = "sampled"
  /\ rng.calls = 6
  /\ sample # ZeroVec
  /\ \E u \in Draws, v \in Draws, w \in Draws :
       squared_length(potential_point(u, v, w)) = One

\* C10: under a fair random source the loop of random_in_unit_sphere ends, and so
\* every Lambertian::scatter and Metal::scatter call returns; the loop has no
\* iteration bound: another rejected candidate is possible at every iteration, and it
\* keeps the loop running.
C10_Termination ==
  /\ (pc = "loop") ~> (pc = "done")
  /\ [](pc = "loop" => ENABLED RandomReject)

\* a call that returned after a rejected iteration
C10_Witness ==
  /\ pc = "done"
  /\ op \in {"Lambertian::scatter", "Metal::scatter"}
  /\ rng.calls = 6

====
